---- MODULE Spec2Model ----
(***************************************************************************)
(* Duplicate-book detection of calibre-librarian-mcp (the find_duplicates  *)
(* tool): title normalisation, token-overlap similarity, the three full-   *)
(* scan strategies and the targeted lookup, together with the two backend  *)
(* round trips (getBookById, getAllBooks) the tool awaits.                 *)
(*                                                                         *)
(* A JavaScript string is a sequence of one-character strings, so that     *)
(* toLowerCase, trim, split and the regular expressions are computed       *)
(* character by character.  A number in [0,1] (a similarity, a threshold)  *)
(* is an exact fraction: similarity returns <<numerator, denominator>>,    *)
(* and a threshold is a whole percentage.                                  *)
(***************************************************************************)
EXTENDS Integers, Sequences, FiniteSets, TLC

VARIABLES
    library,     \* the Calibre library behind calibredb: a sequence of Books
    pc,          \* where the current invocation stands
    args,        \* the validated arguments of the current invocation
    targetBook,  \* findDuplicates: targetBook (Nil before it is resolved)
    books,       \* the record set getAllBooks returned to this invocation
    outcome,     \* what the invocation returned (Nil while it runs)
    s1,          \* first string argument of the pure function under study
    s2,          \* second string argument of the pure function under study
    ret          \* the value the pure function returned

vars == <<library, pc, args, targetBook, books, outcome, s1, s2, ret>>

\* No value yet (a variable the current step has not assigned).
Nil == [nil |-> TRUE]

-----------------------------------------------------------------------------
(* Characters and the String.prototype methods the tool uses.              *)

UpperLetters == <<"A","B","C","D","E","F","G","H","I","J","K","L","M",
                  "N","O","P","Q","R","S","T","U","V","W","X","Y","Z">>

LowerLetters == <<"a","b","c","d","e","f","g","h","i","j","k","l","m",
                  "n","o","p","q","r","s","t","u","v","w","x","y","z">>

Digits == {"0","1","2","3","4","5","6","7","8","9"}

Range(f) == { f[i] : i \in DOMAIN f }

SpaceChars == {" ", "\t", "\n", "\r"}

\* \s of a regular expression, and the characters trim() strips.
IsSpace(c) == c \in SpaceChars

LineTerminators == {"\n", "\r"}

\* The characters "." of a regular expression does not match.
IsLineTerminator(c) == c \in LineTerminators

WordChars == Range(UpperLetters) \cup Range(LowerLetters) \cup Digits \cup {"_"}

\* \w of a regular expression: [A-Za-z0-9_].
IsWordChar(c) == c \in WordChars

LowerOf ==
    [c \in Range(UpperLetters) |->
        LowerLetters[CHOOSE i \in DOMAIN UpperLetters : UpperLetters[i] = c]]

LowerChar(c) == IF c \in DOMAIN LowerOf THEN LowerOf[c] ELSE c

toLowerCase(s) == [i \in 1..Len(s) |-> LowerChar(s[i])]

\* Index of the first character at or after i that is not whitespace
\* (Len(s)+1 when there is none).
RECURSIVE SkipSpace(_, _)
SkipSpace(s, i) ==
    IF i <= Len(s) /\ IsSpace(s[i]) THEN SkipSpace(s, i + 1) ELSE i

\* Index of the last character at or before i that is not whitespace
\* (0 when there is none).
RECURSIVE SkipSpaceBack(_, _)
SkipSpaceBack(s, i) ==
    IF i >= 1 /\ IsSpace(s[i]) THEN SkipSpaceBack(s, i - 1) ELSE i

trim(s) ==
    LET first == SkipSpace(s, 1)
        last  == SkipSpaceBack(s, Len(s))
    IN  IF first > last THEN <<>> ELSE SubSeq(s, first, last)

\* s.split(/\s+/): the pieces between maximal runs of whitespace; a run at
\* either end leaves an empty piece there, and the empty string gives [""].
RECURSIVE SplitSpaceFrom(_, _, _, _)
SplitSpaceFrom(s, i, cur, acc) ==
    IF i > Len(s) THEN Append(acc, cur)
    ELSE IF IsSpace(s[i])
         THEN SplitSpaceFrom(s, SkipSpace(s, i), <<>>, Append(acc, cur))
         ELSE SplitSpaceFrom(s, i + 1, Append(cur, s[i]), acc)

splitSpace(s) == SplitSpaceFrom(s, 1, <<>>, <<>>)

\* s.split(","): the pieces between commas, empty pieces kept.
RECURSIVE SplitCommaFrom(_, _, _, _)
SplitCommaFrom(s, i, cur, acc) ==
    IF i > Len(s) THEN Append(acc, cur)
    ELSE IF s[i] = ","
         THEN SplitCommaFrom(s, i + 1, <<>>, Append(acc, cur))
         ELSE SplitCommaFrom(s, i + 1, Append(cur, s[i]), acc)

splitComma(s) == SplitCommaFrom(s, 1, <<>>, <<>>)

-----------------------------------------------------------------------------
(* similarity and normalizeTitle.                                          *)

\* A mutant of similarity: the overlap is divided by the first string's
\* token count instead of the union's.
similarityOverFirst(a, b) ==
    LET str1 == trim(toLowerCase(a))
        str2 == trim(toLowerCase(b))
        tokens1 == Range(splitSpace(str1))
        tokens2 == Range(splitSpace(str2))
    IN  IF str1 = str2 THEN <<1, 1>>
        ELSE IF Len(str1) = 0 \/ Len(str2) = 0 THEN <<0, 1>>
        ELSE <<Cardinality(tokens1 \cap tokens2), Cardinality(tokens1)>>

\* A mutant of similarity: the two early returns are taken in the other
\* order, and the strings are compared before they are trimmed.
similarityUntrimmed(a, b) ==
    LET str1 == toLowerCase(a)
        str2 == toLowerCase(b)
        tokens1 == Range(splitSpace(trim(str1)))
        tokens2 == Range(splitSpace(trim(str2)))
    IN  IF str1 = str2 THEN <<1, 1>>
        ELSE IF Len(trim(str1)) = 0 \/ Len(trim(str2)) = 0 THEN <<0, 1>>
        ELSE <<Cardinality(tokens1 \cap tokens2), Cardinality(tokens1 \cup tokens2)>>

\* A mutant of similarity: the emptiness test comes before the equality
\* test.
similarityEmptyFirst(a, b) ==
    LET str1 == trim(toLowerCase(a))
        str2 == trim(toLowerCase(b))
        tokens1 == Range(splitSpace(str1))
        tokens2 == Range(splitSpace(str2))
    IN  IF Len(str1) = 0 \/ Len(str2) = 0 THEN <<0, 1>>
        ELSE IF str1 = str2 THEN <<1, 1>>
        ELSE <<Cardinality(tokens1 \cap tokens2), Cardinality(tokens1 \cup tokens2)>>

\* A mutant of similarity: the tokens are kept in arrays, so a token that
\* is repeated within a string is counted each time.
similarityArrays(a, b) ==
    LET str1 == trim(toLowerCase(a))
        str2 == trim(toLowerCase(b))
        tokens1 == splitSpace(str1)
        tokens2 == splitSpace(str2)
        intersection == Cardinality({ k \in DOMAIN tokens1 : tokens1[k] \in Range(tokens2) })
    IN  IF str1 = str2 THEN <<1, 1>>
        ELSE IF Len(str1) = 0 \/ Len(str2) = 0 THEN <<0, 1>>
        ELSE <<intersection, Len(tokens1) + Len(tokens2) - intersection>>

\* similarity(s1, s2) as the fraction <<intersection, union>>; the early
\* returns 1 and 0 are <<1, 1>> and <<0, 1>>.
similarity(a, b) ==
    LET str1 == trim(toLowerCase(a))
        str2 == trim(toLowerCase(b))
        tokens1 == Range(splitSpace(str1))
        tokens2 == Range(splitSpace(str2))
    IN  IF str1 = str2 THEN <<1, 1>>
        ELSE IF Len(str1) = 0 \/ Len(str2) = 0 THEN <<0, 1>>
        ELSE <<Cardinality(tokens1 \cap tokens2), Cardinality(tokens1 \cup tokens2)>>

\* Two fractions denote the same number.
SameNumber(x, y) == x[1] * y[2] = y[1] * x[2]

\* sim >= threshold, the threshold being pct / 100.
AtLeast(sim, pct) == sim[1] * 100 >= pct * sim[2]

\* s starts with the characters of w, compared without regard to case.
StartsWith(s, w) ==
    Len(s) >= Len(w) /\ toLowerCase(SubSeq(s, 1, Len(w))) = w

\* A mutant of stripArticle: the leading article is kept.
stripArticleNever(s) == s

\* s.replace(/^(the|a|an)\s+/i, ""): the first alternative that is followed
\* by whitespace is removed together with the whole run of whitespace.
stripArticle(s) ==
    LET Article(w) == StartsWith(s, w) /\ SkipSpace(s, Len(w) + 1) > Len(w) + 1
        Cut(w) == SubSeq(s, SkipSpace(s, Len(w) + 1), Len(s))
    IN  IF Article(<<"t","h","e">>) THEN Cut(<<"t","h","e">>)
        ELSE IF Article(<<"a">>) THEN Cut(<<"a">>)
        ELSE IF Article(<<"a","n">>) THEN Cut(<<"a","n">>)
        ELSE s

\* Index of the first line terminator at or after i (Len(s)+1 when none):
\* where a greedy ".*" starting at i stops.
RECURSIVE SkipDot(_, _)
SkipDot(s, i) ==
    IF i <= Len(s) /\ ~IsLineTerminator(s[i]) THEN SkipDot(s, i + 1) ELSE i

\* s.replace(/\s*[:;]\s*.*/g, "") from index i on: a match starts at the
\* leftmost i whose run of whitespace is followed by ':' or ';', and takes
\* the whitespace after it and the rest of the line; the search resumes
\* after the match.
RECURSIVE StripSubtitleFrom(_, _, _)
StripSubtitleFrom(s, i, acc) ==
    IF i > Len(s) THEN acc
    ELSE LET k == SkipSpace(s, i)
         IN  IF k <= Len(s) /\ s[k] \in {":", ";"}
             THEN StripSubtitleFrom(s, SkipDot(s, SkipSpace(s, k + 1)), acc)
             ELSE StripSubtitleFrom(s, i + 1, Append(acc, s[i]))

stripSubtitle(s) == StripSubtitleFrom(s, 1, <<>>)

\* s.replace(/[^\w\s]/g, "").
KeepWordOrSpace(c) == IsWordChar(c) \/ IsSpace(c)

stripPunctuation(s) == SelectSeq(s, KeepWordOrSpace)

normalizeTitle(title) ==
    trim(stripPunctuation(stripSubtitle(stripArticle(toLowerCase(title)))))

-----------------------------------------------------------------------------
(* The full-scan strategies.  A Book is a record                           *)
(* [id, title, authors, identifiers, formats]; an absent identifiers or    *)
(* formats field is the empty string, which the code's truthiness tests    *)
(* (!book.identifiers, book.formats) treat exactly like undefined.         *)
(* A DuplicateGroup is [reason, books]; a reason is [kind, detail].        *)

TitleReason(threshold) == [kind |-> "Similar titles", detail |-> <<threshold>>]

AuthorReason(author) == [kind |-> "Same author", detail |-> author]

IdentifierReason(identifier) == [kind |-> "Matching identifier", detail |-> identifier]

\* A mutant of TitleInner: a record that joins a group is not marked as
\* processed.
RECURSIVE TitleInnerNoMark(_, _, _, _, _, _)
TitleInnerNoMark(bs, threshold, normalizedTitle, j, duplicates, processed) ==
    IF j > Len(bs) THEN [duplicates |-> duplicates, processed |-> processed]
    ELSE IF bs[j].id \in processed
         THEN TitleInnerNoMark(bs, threshold, normalizedTitle, j + 1, duplicates, processed)
    ELSE IF AtLeast(similarity(normalizedTitle, normalizeTitle(bs[j].title)), threshold)
         THEN TitleInnerNoMark(bs, threshold, normalizedTitle, j + 1,
                               Append(duplicates, bs[j]), processed)
    ELSE TitleInnerNoMark(bs, threshold, normalizedTitle, j + 1, duplicates, processed)

\* A mutant of TitleInner: a candidate is compared with the member that
\* joined last, not with the seed.
RECURSIVE TitleInnerChain(_, _, _, _, _, _)
TitleInnerChain(bs, threshold, normalizedTitle, j, duplicates, processed) ==
    IF j > Len(bs) THEN [duplicates |-> duplicates, processed |-> processed]
    ELSE IF bs[j].id \in processed
         THEN TitleInnerChain(bs, threshold, normalizedTitle, j + 1, duplicates, processed)
    ELSE IF AtLeast(similarity(normalizedTitle, normalizeTitle(bs[j].title)), threshold)
         THEN TitleInnerChain(bs, threshold, normalizeTitle(bs[j].title), j + 1,
                              Append(duplicates, bs[j]), processed \cup {bs[j].id})
    ELSE TitleInnerChain(bs, threshold, normalizedTitle, j + 1, duplicates, processed)

\* The inner loop of findDuplicatesByTitle (for j = i + 1 ...): returns the
\* members collected for the seed and the grown processed set.
RECURSIVE TitleInner(_, _, _, _, _, _)
TitleInner(bs, threshold, normalizedTitle, j, duplicates, processed) ==
    IF j > Len(bs) THEN [duplicates |-> duplicates, processed |-> processed]
    ELSE IF bs[j].id \in processed
         THEN TitleInner(bs, threshold, normalizedTitle, j + 1, duplicates, processed)
    ELSE IF AtLeast(similarity(normalizedTitle, normalizeTitle(bs[j].title)), threshold)
         THEN TitleInner(bs, threshold, normalizedTitle, j + 1,
                         Append(duplicates, bs[j]), processed \cup {bs[j].id})
    ELSE TitleInner(bs, threshold, normalizedTitle, j + 1, duplicates, processed)

\* A mutant of TitleOuter: every seed is emitted, whether or not it claimed
\* another record.
RECURSIVE TitleOuterEmitAll(_, _, _, _, _, _)
TitleOuterEmitAll(bs, threshold, limit, i, groups, processed) ==
    IF ~(i <= Len(bs) /\ Len(groups) < limit) THEN groups
    ELSE IF bs[i].id \in processed
         THEN TitleOuterEmitAll(bs, threshold, limit, i + 1, groups, processed)
    ELSE LET r == TitleInner(bs, threshold, normalizeTitle(bs[i].title), i + 1,
                             <<bs[i]>>, processed \cup {bs[i].id})
         IN  TitleOuterEmitAll(bs, threshold, limit, i + 1,
                               Append(groups, [reason |-> TitleReason(threshold),
                                               books |-> r.duplicates]),
                               r.processed)

\* A mutant of TitleOuter: a group is emitted only when the seed claimed two
\* records or more.
RECURSIVE TitleOuterNeedsThree(_, _, _, _, _, _)
TitleOuterNeedsThree(bs, threshold, limit, i, groups, processed) ==
    IF ~(i <= Len(bs) /\ Len(groups) < limit) THEN groups
    ELSE IF bs[i].id \in processed
         THEN TitleOuterNeedsThree(bs, threshold, limit, i + 1, groups, processed)
    ELSE LET r == TitleInner(bs, threshold, normalizeTitle(bs[i].title), i + 1,
                             <<bs[i]>>, processed \cup {bs[i].id})
         IN  TitleOuterNeedsThree(bs, threshold, limit, i + 1,
                                  IF Len(r.duplicates) > 2
                                  THEN Append(groups, [reason |-> TitleReason(threshold),
                                                       books |-> r.duplicates])
                                  ELSE groups,
                                  r.processed)

\* The outer loop of findDuplicatesByTitle (for i = 0; i < books.length &&
\* groups.length < limit).
RECURSIVE TitleOuter(_, _, _, _, _, _)
TitleOuter(bs, threshold, limit, i, groups, processed) ==
    IF ~(i <= Len(bs) /\ Len(groups) < limit) THEN groups
    ELSE IF bs[i].id \in processed
         THEN TitleOuter(bs, threshold, limit, i + 1, groups, processed)
    ELSE LET r == TitleInner(bs, threshold, normalizeTitle(bs[i].title), i + 1,
                             <<bs[i]>>, processed \cup {bs[i].id})
         IN  TitleOuter(bs, threshold, limit, i + 1,
                        IF Len(r.duplicates) > 1
                        THEN Append(groups, [reason |-> TitleReason(threshold),
                                             books |-> r.duplicates])
                        ELSE groups,
                        r.processed)

findDuplicatesByTitle(bs, threshold, limit) ==
    TitleOuter(bs, threshold, limit, 1, <<>>, {})

\* A mutant of MapPush: a new key goes to the front of the map.
MapPushFront(map, key, book) ==
    IF \E k \in DOMAIN map : map[k].key = key
    THEN LET k == CHOOSE k \in DOMAIN map : map[k].key = key
         IN  [map EXCEPT ![k].books = Append(@, book)]
    ELSE <<[key |-> key, books |-> <<book>>]>> \o map

\* A Map<string, Book[]> in insertion order is a sequence of [key, books];
\* this is "if (!map.has(key)) map.set(key, []); map.get(key).push(book)".
MapPush(map, key, book) ==
    IF \E k \in DOMAIN map : map[k].key = key
    THEN LET k == CHOOSE k \in DOMAIN map : map[k].key = key
         IN  [map EXCEPT ![k].books = Append(@, book)]
    ELSE Append(map, [key |-> key, books |-> <<book>>])

\* A mutant of authorKey: every book gets the same key.
authorKeyNone(book) == <<>>

\* The author key of a book in the full scan.
authorKey(book) == trim(toLowerCase(book.authors))

\* The first loop of findDuplicatesByAuthorTitle: byAuthor.
RECURSIVE ByAuthorFrom(_, _, _)
ByAuthorFrom(bs, n, map) ==
    IF n > Len(bs) THEN map
    ELSE ByAuthorFrom(bs, n + 1, MapPush(map, authorKey(bs[n]), bs[n]))

byAuthor(bs) == ByAuthorFrom(bs, 1, <<>>)

\* The inner loop of findDuplicatesByAuthorTitle, over one author's books.
RECURSIVE AuthorInner(_, _, _, _, _, _)
AuthorInner(authorBooks, threshold, normalizedTitle, j, duplicates, processed) ==
    IF j > Len(authorBooks) THEN [duplicates |-> duplicates, processed |-> processed]
    ELSE IF authorBooks[j].id \in processed
         THEN AuthorInner(authorBooks, threshold, normalizedTitle, j + 1, duplicates, processed)
    ELSE IF AtLeast(similarity(normalizedTitle, normalizeTitle(authorBooks[j].title)), threshold)
         THEN AuthorInner(authorBooks, threshold, normalizedTitle, j + 1,
                          Append(duplicates, authorBooks[j]),
                          processed \cup {authorBooks[j].id})
    ELSE AuthorInner(authorBooks, threshold, normalizedTitle, j + 1, duplicates, processed)

\* The loop over one author's books (for i = 0; i < authorBooks.length &&
\* groups.length < limit): returns the grown groups and processed set.
RECURSIVE AuthorOuter(_, _, _, _, _, _, _)
AuthorOuter(author, authorBooks, threshold, limit, i, groups, processed) ==
    IF ~(i <= Len(authorBooks) /\ Len(groups) < limit)
    THEN [groups |-> groups, processed |-> processed]
    ELSE IF authorBooks[i].id \in processed
         THEN AuthorOuter(author, authorBooks, threshold, limit, i + 1, groups, processed)
    ELSE LET r == AuthorInner(authorBooks, threshold, normalizeTitle(authorBooks[i].title),
                              i + 1, <<authorBooks[i]>>,
                              processed \cup {authorBooks[i].id})
         IN  AuthorOuter(author, authorBooks, threshold, limit, i + 1,
                         IF Len(r.duplicates) > 1
                         THEN Append(groups, [reason |-> AuthorReason(author),
                                              books |-> r.duplicates])
                         ELSE groups,
                         r.processed)

\* A mutant of AuthorBuckets: the cap counts the groups of the current
\* bucket only.
RECURSIVE AuthorBucketsPerBucket(_, _, _, _, _, _)
AuthorBucketsPerBucket(map, threshold, limit, k, groups, processed) ==
    IF k > Len(map) THEN groups
    ELSE IF Len(map[k].books) < 2
         THEN AuthorBucketsPerBucket(map, threshold, limit, k + 1, groups, processed)
    ELSE LET r == AuthorOuter(map[k].key, map[k].books, threshold, limit, 1,
                              <<>>, processed)
         IN  AuthorBucketsPerBucket(map, threshold, limit, k + 1,
                                    groups \o r.groups, r.processed)

\* The loop over the author buckets (for [author, authorBooks] of byAuthor).
RECURSIVE AuthorBuckets(_, _, _, _, _, _)
AuthorBuckets(map, threshold, limit, k, groups, processed) ==
    IF k > Len(map) THEN groups
    ELSE IF Len(map[k].books) < 2
         THEN AuthorBuckets(map, threshold, limit, k + 1, groups, processed)
    ELSE LET r == AuthorOuter(map[k].key, map[k].books, threshold, limit, 1,
                              groups, processed)
         IN  AuthorBuckets(map, threshold, limit, k + 1, r.groups, r.processed)

findDuplicatesByAuthorTitle(bs, threshold, limit) ==
    AuthorBuckets(byAuthor(bs), threshold, limit, 1, <<>>, {})

NullToken == <<"n","u","l","l">>

\* A mutant of identifierTokens: the tokens keep their case.
identifierTokensCased(identifiers) ==
    LET parts == splitComma(identifiers)
    IN  [k \in DOMAIN parts |-> trim(parts[k])]

\* book.identifiers.split(",").map((id) => id.trim().toLowerCase())
identifierTokens(identifiers) ==
    LET parts == splitComma(identifiers)
    IN  [k \in DOMAIN parts |-> toLowerCase(trim(parts[k]))]

\* The loop "for (const id of ids)" of findDuplicatesByIdentifier.
RECURSIVE PushTokens(_, _, _, _)
PushTokens(map, ids, k, book) ==
    IF k > Len(ids) THEN map
    ELSE IF ids[k] = <<>> \/ ids[k] = NullToken
         THEN PushTokens(map, ids, k + 1, book)
    ELSE PushTokens(MapPush(map, ids[k], book), ids, k + 1, book)

\* The first loop of findDuplicatesByIdentifier: byIdentifier.
RECURSIVE ByIdentifierFrom(_, _, _)
ByIdentifierFrom(bs, n, map) ==
    IF n > Len(bs) THEN map
    ELSE IF bs[n].identifiers = <<>>
         THEN ByIdentifierFrom(bs, n + 1, map)
    ELSE ByIdentifierFrom(bs, n + 1,
                          PushTokens(map, identifierTokens(bs[n].identifiers), 1, bs[n]))

byIdentifier(bs) == ByIdentifierFrom(bs, 1, <<>>)

\* A mutant of IdentifierGroups: a token whose records include one that is
\* already in a group is passed over.
RECURSIVE IdentifierGroupsExclusive(_, _, _, _, _)
IdentifierGroupsExclusive(map, limit, k, groups, processed) ==
    IF k > Len(map) THEN groups
    ELSE IF \/ Len(map[k].books) < 2
            \/ map[k].key \in processed
            \/ \E g \in DOMAIN groups : Range(groups[g].books) \cap Range(map[k].books) # {}
         THEN IdentifierGroupsExclusive(map, limit, k + 1, groups, processed)
    ELSE IF Len(groups) >= limit THEN groups
    ELSE IdentifierGroupsExclusive(map, limit, k + 1,
                          Append(groups, [reason |-> IdentifierReason(map[k].key),
                                          books |-> map[k].books]),
                          processed \cup {map[k].key})

\* A mutant of IdentifierGroups: at the cap the loop goes on and a further
\* group takes the place of the last one.
RECURSIVE IdentifierGroupsKeepLatest(_, _, _, _, _)
IdentifierGroupsKeepLatest(map, limit, k, groups, processed) ==
    IF k > Len(map) THEN groups
    ELSE IF Len(map[k].books) < 2 \/ map[k].key \in processed
         THEN IdentifierGroupsKeepLatest(map, limit, k + 1, groups, processed)
    ELSE LET group == [reason |-> IdentifierReason(map[k].key), books |-> map[k].books]
         IN  IdentifierGroupsKeepLatest(map, limit, k + 1,
                                        IF Len(groups) >= limit
                                        THEN [groups EXCEPT ![limit] = group]
                                        ELSE Append(groups, group),
                                        processed \cup {map[k].key})

\* The second loop of findDuplicatesByIdentifier.
RECURSIVE IdentifierGroups(_, _, _, _, _)
IdentifierGroups(map, limit, k, groups, processed) ==
    IF k > Len(map) THEN groups
    ELSE IF Len(map[k].books) < 2 \/ map[k].key \in processed
         THEN IdentifierGroups(map, limit, k + 1, groups, processed)
    ELSE IF Len(groups) >= limit THEN groups
    ELSE IdentifierGroups(map, limit, k + 1,
                          Append(groups, [reason |-> IdentifierReason(map[k].key),
                                          books |-> map[k].books]),
                          processed \cup {map[k].key})

findDuplicatesByIdentifier(bs, limit) ==
    IdentifierGroups(byIdentifier(bs), limit, 1, <<>>, {})

\* The switch (mode) of the full scan.
fullScan(mode, bs, threshold, limit) ==
    CASE mode = "title"        -> findDuplicatesByTitle(bs, threshold, limit)
      [] mode = "author_title" -> findDuplicatesByAuthorTitle(bs, threshold, limit)
      [] mode = "identifier"   -> findDuplicatesByIdentifier(bs, limit)

-----------------------------------------------------------------------------
(* The targeted lookup: the filter over allBooks.                          *)

\* The identifier branch's filter predicate.
sharesIdentifier(target, b) ==
    LET targetIds == Range(identifierTokens(target.identifiers))
    IN  /\ b.id # target.id
        /\ b.identifiers # <<>>
        /\ \E tok \in Range(identifierTokens(b.identifiers)) : tok \in targetIds

\* A mutant of similarToTarget: a record without formats is never a match.
similarToTargetWithFile(mode, target, b, threshold) ==
    /\ b.id # target.id
    /\ b.formats # <<>>
    /\ mode = "author_title" => toLowerCase(b.authors) = toLowerCase(target.authors)
    /\ AtLeast(similarity(normalizeTitle(target.title), normalizeTitle(b.title)), threshold)

\* The title branch's filter predicate.
similarToTarget(mode, target, b, threshold) ==
    /\ b.id # target.id
    /\ mode = "author_title" => toLowerCase(b.authors) = toLowerCase(target.authors)
    /\ AtLeast(similarity(normalizeTitle(target.title), normalizeTitle(b.title)), threshold)

isDuplicateOf(mode, target, b, threshold) ==
    IF mode = "identifier" /\ target.identifiers # <<>>
    THEN sharesIdentifier(target, b)
    ELSE similarToTarget(mode, target, b, threshold)

RECURSIVE FilterDuplicates(_, _, _, _, _, _)
FilterDuplicates(mode, target, allBooks, threshold, n, acc) ==
    IF n > Len(allBooks) THEN acc
    ELSE FilterDuplicates(mode, target, allBooks, threshold, n + 1,
                          IF isDuplicateOf(mode, target, allBooks[n], threshold)
                          THEN Append(acc, allBooks[n]) ELSE acc)

targetedDuplicates(mode, target, allBooks, threshold) ==
    FilterDuplicates(mode, target, allBooks, threshold, 1, <<>>)

-----------------------------------------------------------------------------
(* The inputs the model draws from.                                        *)

\* Longest record sequence of the title/author family.
MaxBooks == 3

\* Length of the record sequences of the pair family.
PairBooks == 4

\* Longest record sequence of the identifier family.
MaxIdBooks == 3

\* Longest record sequence of the author family.
MaxAuthorBooks == 3

\* Longest record sequence of the echo family.
MaxEchoBooks == 2

\* Longest record sequence of the odd-token family.
MaxOddBooks == 2

\* Longest record sequence of the format family.
MaxFormatBooks == 2

\* Longest record sequence of the chain family.
MaxChainBooks == 3

\* Largest limit (maxGroups) an invocation passes; the schema allows 1..50.
MaxLimit == 2

\* Longest string handed to a pure function under study.
MaxStrLen == 3

\* Longest title handed to normalizeTitle on its own.
MaxTitleLen == 5

TheHobbit == <<"T","h","e"," ","H","o","b","b","i","t">>

HobbitThe == <<"H","o","b","b","i","t",","," ","T","h","e">>

Dune == <<"D","u","n","e">>

Tolkien == <<"J",".","R",".","R","."," ","T","o","l","k","i","e","n">>

Herbert == <<"F","r","a","n","k"," ","H","e","r","b","e","r","t">>

\* "FRANK HERBERT " : Herbert in another case, with a trailing space.
HerbertLoose == <<"F","R","A","N","K"," ","H","E","R","B","E","R","T"," ">>

Isbn123 == <<"i","s","b","n",":","1","2","3">>

Isbn123Asin999 == <<"I","S","B","N",":","1","2","3",","," ","a","s","i","n",":","9","9","9">>

Asin999 == <<"a","s","i","n",":","9","9","9">>

DuneDune == <<"D","u","n","e"," ","D","u","n","e">>

DuneMessiah == <<"D","u","n","e"," ","M","e","s","s","i","a","h">>

MessiahDune == <<"M","e","s","s","i","a","h"," ","D","u","n","e">>

\* "isbn:123," : a trailing comma leaves an empty piece.
Isbn123Comma == <<"i","s","b","n",":","1","2","3",",">>

Asin999Comma == <<"a","s","i","n",":","9","9","9",",">>

\* "isbn:123, ISBN:123" : one token, written twice.
Isbn123Twice == <<"i","s","b","n",":","1","2","3",","," ","I","S","B","N",":","1","2","3">>

\* The identifiers text "null".
NullText == <<"n","u","l","l">>

\* A formats text.
Epub == <<"E","P","U","B">>

Messiah == <<"M","e","s","s","i","a","h">>

Titles == {TheHobbit, HobbitThe, Dune}

Authors == {Tolkien, Herbert}

Identifiers == {<<>>, Isbn123, Isbn123Asin999, Asin999}

\* Thresholds, in percent (the schema allows every number in [0,1]).
Thresholds == {50, 80, 100}

Modes == {"title", "author_title", "identifier"}

\* The ids an invocation may ask about.
BookIds == {2, 5}

\* Arguments outside the schema: a threshold above 1 and one below 0, a
\* limit of 0, a mode that is not in the enum, and a threshold above 1 in a
\* call about one book.
BadArgs ==
    { [mode |-> "author_title", hasBookId |-> FALSE, bookId |-> 0, threshold |-> 101, limit |-> 1],
      [mode |-> "author_title", hasBookId |-> FALSE, bookId |-> 0, threshold |-> -1, limit |-> 1],
      [mode |-> "author_title", hasBookId |-> FALSE, bookId |-> 0, threshold |-> 80, limit |-> 0],
      [mode |-> "isbn", hasBookId |-> FALSE, bookId |-> 0, threshold |-> 80, limit |-> 1],
      [mode |-> "title", hasBookId |-> TRUE, bookId |-> 2, threshold |-> 101, limit |-> 1] }

\* Records that differ in title and author, without identifiers; ids 1..n.
TitleFamily ==
    UNION { { [i \in 1..n |-> [id |-> i, title |-> t[i], authors |-> a[i],
                               identifiers |-> <<>>, formats |-> <<>>]] :
              t \in [1..n -> Titles], a \in [1..n -> Authors] } : n \in 0..MaxBooks }

\* Records that differ in their identifiers; ids 5..4+n.
IdentifierFamily ==
    UNION { { [i \in 1..n |-> [id |-> 4 + i, title |-> Dune, authors |-> Herbert,
                               identifiers |-> x[i], formats |-> <<>>]] :
              x \in [1..n -> Identifiers] } : n \in 0..MaxIdBooks }

\* Longer sequences over two titles, so that two groups can form in one
\* scan; ids 1..PairBooks.
PairFamily ==
    { [i \in 1..PairBooks |-> [id |-> i, title |-> t[i], authors |-> a[i],
                               identifiers |-> <<>>, formats |-> <<>>]] :
      t \in [1..PairBooks -> {TheHobbit, Dune}], a \in [1..PairBooks -> Authors] }

\* Records with one title whose author strings differ, also in case and
\* surrounding whitespace only; ids 1..n.
AuthorFamily ==
    UNION { { [i \in 1..n |-> [id |-> i, title |-> Dune, authors |-> a[i],
                               identifiers |-> <<>>, formats |-> <<>>]] :
              a \in [1..n -> {Herbert, HerbertLoose, Tolkien}] } : n \in 0..MaxAuthorBooks }

\* Records of one author whose titles repeat or reorder the same words;
\* ids 1..n.
EchoFamily ==
    UNION { { [i \in 1..n |-> [id |-> i, title |-> t[i], authors |-> Herbert,
                               identifiers |-> <<>>, formats |-> <<>>]] :
              t \in [1..n -> {Dune, DuneDune, DuneMessiah, MessiahDune}] } : n \in 1..MaxEchoBooks }

\* Records whose identifiers text holds an empty piece, only "null", or one
\* token twice; ids 5..4+n.
OddTokenFamily ==
    UNION { { [i \in 1..n |-> [id |-> 4 + i, title |-> Dune, authors |-> Herbert,
                               identifiers |-> x[i], formats |-> <<>>]] :
              x \in [1..n -> {Isbn123, Isbn123Comma, Asin999Comma, NullText, Isbn123Twice}] } : n \in 1..MaxOddBooks }

\* Records with and without a formats text, over two titles, with and
\* without an identifier; ids 5..4+n.
FormatFamily ==
    UNION { { [i \in 1..n |-> [id |-> 4 + i, title |-> t[i], authors |-> Herbert,
                               identifiers |-> x[i], formats |-> f[i]]] :
              t \in [1..n -> {Dune, TheHobbit}], x \in [1..n -> {<<>>, Isbn123}],
              f \in [1..n -> {<<>>, Epub}] } : n \in 1..MaxFormatBooks }

\* Two authors interleaved: the author who appears first has his first
\* pair of similar titles after the other author's.
InterleavedLibrary ==
    << [id |-> 1, title |-> TheHobbit, authors |-> Tolkien,
        identifiers |-> <<>>, formats |-> <<>>],
       [id |-> 2, title |-> Dune, authors |-> Herbert,
        identifiers |-> <<>>, formats |-> <<>>],
       [id |-> 3, title |-> Dune, authors |-> Tolkien,
        identifiers |-> <<>>, formats |-> <<>>],
       [id |-> 4, title |-> Dune, authors |-> Herbert,
        identifiers |-> <<>>, formats |-> <<>>],
       [id |-> 5, title |-> Dune, authors |-> Tolkien,
        identifiers |-> <<>>, formats |-> <<>>] >>

\* Records of one author over titles whose similarity is not transitive:
\* "Dune Messiah" shares a word with "Dune" and with "Messiah", which share
\* none; ids 1..n.
ChainFamily ==
    UNION { { [i \in 1..n |-> [id |-> i, title |-> t[i], authors |-> Herbert,
                               identifiers |-> <<>>, formats |-> <<>>]] :
              t \in [1..n -> {Dune, DuneMessiah, Messiah}] } : n \in 1..MaxChainBooks }

Libraries ==
    TitleFamily \cup PairFamily \cup AuthorFamily \cup IdentifierFamily \cup EchoFamily
      \cup OddTokenFamily \cup FormatFamily \cup {InterleavedLibrary} \cup ChainFamily

SimChars == {"a", "A", "b", " "}

SimStrings == UNION { [1..n -> SimChars] : n \in 0..MaxStrLen }

\* "The Hobbit: An Unexpected Journey"
HobbitJourney ==
    <<"T","h","e"," ","H","o","b","b","i","t",":"," ","A","n"," ",
      "U","n","e","x","p","e","c","t","e","d"," ","J","o","u","r","n","e","y">>

\* Letters that spell the articles "a" and "an", a capital, the space, the
\* two subtitle marks and one more punctuation mark.
TitleChars == {"a", "n", "B", " ", ":", ";", "-"}

\* The same title with its subtitle continued on a second line.
HobbitJourneyTwoLines ==
    <<"T","h","e"," ","H","o","b","b","i","t",":"," ","A","n"," ",
      "U","n","e","x","p","e","c","t","e","d","\n","J","o","u","r","n","e","y">>

TitleStrings ==
    UNION { [1..n -> TitleChars] : n \in 0..MaxTitleLen }
      \cup {HobbitJourney, HobbitJourneyTwoLines}

-----------------------------------------------------------------------------
(* The find_duplicates tool as a state machine: an invocation is suspended *)
(* at each await (getBookById, getAllBooks) and everything between two     *)
(* awaits is one step.                                                     *)

NoArgs == [mode |-> "author_title", hasBookId |-> FALSE, bookId |-> 0,
           threshold |-> 80, limit |-> 1]

Outcome(kind, groups, duplicates) ==
    [kind |-> kind, groups |-> groups, duplicates |-> duplicates]

Init ==
    /\ library \in Libraries
    /\ pc = "idle"
    /\ args = NoArgs
    /\ targetBook = Nil
    /\ books = <<>>
    /\ outcome = Nil
    /\ s1 = <<>>
    /\ s2 = <<>>
    /\ ret = <<0, 1>>

\* The tool is called with arguments the schema accepted; with a bookId it
\* awaits getBookById, without one it awaits getAllBooks.  The targeted
\* lookup never reads limit, so it varies in full scans only.
\* A mutant of schemaAccepts: threshold without .max(1).
schemaAcceptsNoMax(a) ==
    /\ a.mode \in Modes
    /\ a.hasBookId => a.bookId > 0
    /\ a.threshold >= 0
    /\ a.limit > 0 /\ a.limit <= 50

\* The schema, as zod parses a call's arguments against it: an enum, a
\* positive bookId when one is given, threshold in [0,1] (here in percent),
\* limit in 1..50.  Integers are the only numbers the model passes.
schemaAccepts(a) ==
    /\ a.mode \in Modes
    /\ a.hasBookId => a.bookId > 0
    /\ a.threshold >= 0 /\ a.threshold <= 100
    /\ a.limit > 0 /\ a.limit <= 50

\* The arguments a client may send: those the schema admits, and a few it
\* does not.
CallArgs ==
    UNION { { [mode |-> mode, hasBookId |-> hasBookId, bookId |-> bookId,
               threshold |-> threshold, limit |-> limit] :
              mode \in Modes, threshold \in Thresholds,
              bookId \in (IF hasBookId THEN BookIds ELSE {0}),
              limit \in (IF hasBookId THEN {1} ELSE 1..MaxLimit) } : hasBookId \in BOOLEAN }
      \cup BadArgs

\* A call whose arguments parse: the handler starts.
Invoke ==
    /\ pc = "idle"
    /\ \E a \in CallArgs :
          /\ schemaAccepts(a)
          /\ args' = a
          /\ pc' = IF a.hasBookId THEN "getBookById" ELSE "getAllBooks"
    /\ UNCHANGED <<library, targetBook, books, outcome, s1, s2, ret>>

\* A call whose arguments do not parse: the handler is never entered and
\* the client receives a validation error.
Reject ==
    /\ pc = "idle"
    /\ \E a \in CallArgs :
          /\ ~schemaAccepts(a)
          /\ args' = a
          /\ outcome' = Outcome("rejected", <<>>, <<>>)
          /\ pc' = "done"
    /\ UNCHANGED <<library, targetBook, books, s1, s2, ret>>

\* calibredb list --search id:N --for-machine, as the backend answers it.
searchById(lib, bookId) == SelectSeq(lib, LAMBDA b : b.id = bookId)

\* getBookById resolves: the first listed book, or null and the tool
\* returns "Book not found with ID".
GetBookByIdReturns ==
    /\ pc = "getBookById"
    /\ LET found == searchById(library, args.bookId)
       IN  IF Len(found) > 0
           THEN /\ targetBook' = found[1]
                /\ pc' = "getAllBooks"
                /\ outcome' = outcome
           ELSE /\ targetBook' = targetBook
                /\ pc' = "done"
                /\ outcome' = Outcome("not_found", <<>>, <<>>)
    /\ UNCHANGED <<library, args, books, s1, s2, ret>>

\* calibredb fails, times out or prints something that is no JSON array:
\* getBookById catches it and returns null.
GetBookByIdFails ==
    /\ pc = "getBookById"
    /\ pc' = "done"
    /\ outcome' = Outcome("not_found", <<>>, <<>>)
    /\ UNCHANGED <<library, args, targetBook, books, s1, s2, ret>>

\* A mutant of resultOf: the scan reads the first record before it looks
\* at the length, and fails on an empty record set.
resultOfNoEmptyCheck(a, target, bs) ==
    IF a.hasBookId
    THEN LET duplicates == targetedDuplicates(a.mode, target, bs, a.threshold)
         IN  IF Len(duplicates) = 0
             THEN Outcome("no_duplicates_of_target", <<>>, <<>>)
             ELSE Outcome("duplicates_of_target", <<>>, duplicates)
    ELSE IF Len(bs) = 0 THEN Outcome("threw", <<>>, <<>>)
    ELSE LET groups == fullScan(a.mode, bs, a.threshold, a.limit)
         IN  IF Len(groups) = 0
             THEN Outcome("no_duplicates", <<>>, <<>>)
             ELSE Outcome("groups", groups, <<>>)

\* What findDuplicates returns once getAllBooks has resolved with bs.
resultOf(a, target, bs) ==
    IF a.hasBookId
    THEN LET duplicates == targetedDuplicates(a.mode, target, bs, a.threshold)
         IN  IF Len(duplicates) = 0
             THEN Outcome("no_duplicates_of_target", <<>>, <<>>)
             ELSE Outcome("duplicates_of_target", <<>>, duplicates)
    ELSE IF Len(bs) = 0 THEN Outcome("no_books", <<>>, <<>>)
    ELSE LET groups == fullScan(a.mode, bs, a.threshold, a.limit)
         IN  IF Len(groups) = 0
             THEN Outcome("no_duplicates", <<>>, <<>>)
             ELSE Outcome("groups", groups, <<>>)

\* getAllBooks resolves with the library as it is now, and the tool runs to
\* its return.
GetAllBooksReturns ==
    /\ pc = "getAllBooks"
    /\ books' = library
    /\ outcome' = resultOf(args, targetBook, library)
    /\ pc' = "done"
    /\ UNCHANGED <<library, args, targetBook, s1, s2, ret>>

\* calibredb fails or times out in getAllBooks: nothing catches it and the
\* invocation rejects.
GetAllBooksFails ==
    /\ pc = "getAllBooks"
    /\ outcome' = Outcome("threw", <<>>, <<>>)
    /\ pc' = "done"
    /\ UNCHANGED <<library, args, targetBook, books, s1, s2, ret>>

RemoveAt(seq, k) == [i \in 1..(Len(seq) - 1) |-> IF i < k THEN seq[i] ELSE seq[i + 1]]

\* The library is Calibre's: while an invocation that has resolved its
\* target waits for getAllBooks, another client may remove that book.  (Any
\* other change leaves the invocation with a library Init already offers.)
LibraryChanges ==
    /\ pc = "getAllBooks"
    /\ args.hasBookId
    /\ \E k \in DOMAIN library :
          /\ library[k].id = args.bookId
          /\ library' = RemoveAt(library, k)
    /\ UNCHANGED <<pc, args, targetBook, books, outcome, s1, s2, ret>>

\* The result has been delivered; nothing of the invocation is kept.
Finish ==
    /\ pc = "done"
    /\ pc' = "idle"
    /\ args' = NoArgs
    /\ targetBook' = Nil
    /\ books' = <<>>
    /\ outcome' = Nil
    /\ UNCHANGED <<library, s1, s2, ret>>

Next ==
    \/ Invoke
    \/ Reject
    \/ GetBookByIdReturns
    \/ GetBookByIdFails
    \/ GetAllBooksReturns
    \/ GetAllBooksFails
    \/ LibraryChanges
    \/ Finish

Spec == Init /\ [][Next]_vars

-----------------------------------------------------------------------------
(* similarity as a pure function of two strings.                           *)

InitSim ==
    /\ library = <<>>
    /\ pc = "similarity"
    /\ args = NoArgs
    /\ targetBook = Nil
    /\ books = <<>>
    /\ outcome = Nil
    /\ s1 \in SimStrings
    /\ s2 \in SimStrings
    /\ ret = <<0, 1>>

CallSimilarity ==
    /\ pc = "similarity"
    /\ ret' = similarity(s1, s2)
    /\ pc' = "similarity_done"
    /\ UNCHANGED <<library, args, targetBook, books, outcome, s1, s2>>

NextSim == CallSimilarity

SpecSim == InitSim /\ [][NextSim]_vars

-----------------------------------------------------------------------------
(* Two invocations of the full scan in flight at once, each on its own     *)
(* record set.  The handler is suspended only at await getAllBooks(); the  *)
(* scan after it runs to completion.  Here library, pc, args, books and    *)
(* outcome hold one value per caller, and ret holds the ids that the scans *)
(* returned so far have placed in groups.                                  *)

Callers == {1, 2}

\* Record sets of the callers: one author, two titles; ids 1..n.
CallerLibraries ==
    UNION { { [i \in 1..n |-> [id |-> i, title |-> t[i], authors |-> Herbert,
                               identifiers |-> <<>>, formats |-> <<>>]] :
              t \in [1..n -> {Dune, DuneMessiah}] } : n \in 0..MaxEchoBooks }

\* A mutant of newProcessed: the set carries over what earlier invocations
\* claimed.
newProcessedKept(claimedBefore) == claimedBefore

\* const processed = new Set<number>(): allocated in the call, empty
\* whatever earlier invocations claimed.
newProcessed(claimedBefore) == {}

\* findDuplicatesByTitle / findDuplicatesByAuthorTitle entered while earlier
\* invocations have claimed claimedBefore.
scanOf(a, bs, claimedBefore) ==
    IF a.mode = "title"
    THEN TitleOuter(bs, a.threshold, a.limit, 1, <<>>, newProcessed(claimedBefore))
    ELSE AuthorBuckets(byAuthor(bs), a.threshold, a.limit, 1, <<>>,
                       newProcessed(claimedBefore))

\* The handler from the record set to its return, in a full scan.
scanResult(a, bs, claimedBefore) ==
    IF Len(bs) = 0 THEN Outcome("no_books", <<>>, <<>>)
    ELSE LET groups == scanOf(a, bs, claimedBefore)
         IN  IF Len(groups) = 0
             THEN Outcome("no_duplicates", <<>>, <<>>)
             ELSE Outcome("groups", groups, <<>>)

IdsInGroups(groups) ==
    UNION { { groups[g].books[m].id : m \in DOMAIN groups[g].books } : g \in DOMAIN groups }

InitPair ==
    /\ library \in [Callers -> CallerLibraries]
    /\ pc = [c \in Callers |-> "idle"]
    /\ args = [c \in Callers |-> NoArgs]
    /\ targetBook = Nil
    /\ books = [c \in Callers |-> <<>>]
    /\ outcome = [c \in Callers |-> Nil]
    /\ s1 = <<>>
    /\ s2 = <<>>
    /\ ret = {}

\* Caller c starts a full scan and waits in getAllBooks.
InvokeScan(c) ==
    /\ pc[c] = "idle"
    /\ \E mode \in {"title", "author_title"}, threshold \in {50, 100} :
          args' = [args EXCEPT ![c] = [mode |-> mode, hasBookId |-> FALSE, bookId |-> 0,
                                       threshold |-> threshold, limit |-> MaxLimit]]
    /\ pc' = [pc EXCEPT ![c] = "getAllBooks"]
    /\ UNCHANGED <<library, targetBook, books, outcome, s1, s2, ret>>

\* getAllBooks of caller c resolves and its scan runs to the return.
ScanReturns(c) ==
    /\ pc[c] = "getAllBooks"
    /\ LET result == scanResult(args[c], library[c], ret)
       IN  /\ outcome' = [outcome EXCEPT ![c] = result]
           /\ ret' = ret \cup IdsInGroups(result.groups)
    /\ books' = [books EXCEPT ![c] = library[c]]
    /\ pc' = [pc EXCEPT ![c] = "done"]
    /\ UNCHANGED <<library, args, targetBook, s1, s2>>

\* getAllBooks of caller c rejects.
ScanFails(c) ==
    /\ pc[c] = "getAllBooks"
    /\ outcome' = [outcome EXCEPT ![c] = Outcome("threw", <<>>, <<>>)]
    /\ pc' = [pc EXCEPT ![c] = "done"]
    /\ UNCHANGED <<library, args, targetBook, books, s1, s2, ret>>

\* The result of caller c has been delivered.
Discard(c) ==
    /\ pc[c] = "done"
    /\ pc' = [pc EXCEPT ![c] = "idle"]
    /\ args' = [args EXCEPT ![c] = NoArgs]
    /\ books' = [books EXCEPT ![c] = <<>>]
    /\ outcome' = [outcome EXCEPT ![c] = Nil]
    /\ UNCHANGED <<library, targetBook, s1, s2, ret>>

NextPair ==
    \E c \in Callers :
        \/ InvokeScan(c)
        \/ ScanReturns(c)
        \/ ScanFails(c)
        \/ Discard(c)

SpecPair == InitPair /\ [][NextPair]_vars

-----------------------------------------------------------------------------
(* normalizeTitle as a pure function of a title, followed by the           *)
(* comparison of the normalized title with itself.                         *)

InitNorm ==
    /\ library = <<>>
    /\ pc = "normalizeTitle"
    /\ args = NoArgs
    /\ targetBook = Nil
    /\ books = <<>>
    /\ outcome = Nil
    /\ s1 \in TitleStrings
    /\ s2 = <<>>
    /\ ret = <<0, 1>>

\* s2 receives normalizeTitle(s1).
CallNormalizeTitle ==
    /\ pc = "normalizeTitle"
    /\ s2' = normalizeTitle(s1)
    /\ pc' = "normalized"
    /\ UNCHANGED <<library, args, targetBook, books, outcome, s1, ret>>

\* ret receives similarity(s2, s2), as when a title meets its own copy.
CompareWithItself ==
    /\ pc = "normalized"
    /\ ret' = similarity(s2, s2)
    /\ pc' = "compared"
    /\ UNCHANGED <<library, args, targetBook, books, outcome, s1, s2>>

NextNorm ==
    \/ CallNormalizeTitle
    \/ CompareWithItself

SpecNorm == InitNorm /\ [][NextNorm]_vars

-----------------------------------------------------------------------------
(* Properties of the full scan.                                            *)

\* A full scan has returned what it computed from the fetched record set.
FullScanDone ==
    /\ pc = "done"
    /\ ~args.hasBookId
    /\ outcome.kind \in {"groups", "no_duplicates", "no_books"}

Ids(bs) == [k \in DOMAIN bs |-> bs[k].id]

\* Every (group, position) of the emitted groups.
Slots(groups) ==
    UNION { { <<g, m>> : m \in DOMAIN groups[g].books } : g \in DOMAIN groups }

\* No id fills two slots.
Exclusive(groups) ==
    \A x, y \in Slots(groups) :
        x # y => groups[x[1]].books[x[2]].id # groups[y[1]].books[y[2]].id

\* The ids that are members of some group.
GroupedIds(groups) == { groups[x[1]].books[x[2]].id : x \in Slots(groups) }

HobbitLibrary ==
    << [id |-> 1, title |-> TheHobbit, authors |-> Tolkien,
        identifiers |-> <<>>, formats |-> <<>>],
       [id |-> 2, title |-> HobbitThe, authors |-> Tolkien,
        identifiers |-> <<>>, formats |-> <<>>],
       [id |-> 3, title |-> Dune, authors |-> Herbert,
        identifiers |-> <<>>, formats |-> <<>>] >>

HobbitScan ==
    /\ FullScanDone
    /\ books = HobbitLibrary
    /\ args.mode \in {"title", "author_title"}

\* The scan returned exactly one group, whose members are records 1 and 2.
OneGroupOfOneAndTwo ==
    /\ outcome.kind = "groups"
    /\ Len(outcome.groups) = 1
    /\ Ids(outcome.groups[1].books) = <<1, 2>>

\* C1 as stated: on the Hobbit records with threshold 0.8, the title and the
\* author_title scan both return exactly one group, {1,2}, and record 3 is in
\* no group.
C1_AsStated ==
    (HobbitScan /\ args.threshold = 80) => OneGroupOfOneAndTwo

\* C1 amended: "hobbit" and "hobbit the" share one of two tokens, similarity
\* 1/2; on the Hobbit records the title and the author_title scan both return
\* exactly the group {1,2} at threshold 0.5 and no group at threshold 0.8.
C1_HobbitScenario ==
    HobbitScan =>
        /\ args.threshold = 50 => OneGroupOfOneAndTwo
        /\ args.threshold = 80 => outcome.kind = "no_duplicates"

C1_Witness ==
    /\ HobbitScan
    /\ args.mode = "author_title"
    /\ args.threshold = 50
    /\ OneGroupOfOneAndTwo
    /\ 3 \notin GroupedIds(outcome.groups)

\* C2: in a title scan every record id is a member of at most one emitted
\* group, and at most once in it.
C2_TitleExclusive ==
    (FullScanDone /\ args.mode = "title") => Exclusive(outcome.groups)

C2_Witness ==
    /\ FullScanDone
    /\ args.mode = "title"
    /\ Len(outcome.groups) = 2
    /\ Len(outcome.groups[1].books) = 2

\* The author string after case-folding and trimming, from the record.
FoldedAuthor(b) == trim(toLowerCase(b.authors))

\* C3: in an author_title scan every record id is a member of at most one
\* emitted group, and the members of a group have the same author string
\* after case-folding and trimming.
C3_AuthorTitleGroups ==
    (FullScanDone /\ args.mode = "author_title") =>
        /\ Exclusive(outcome.groups)
        /\ \A x, y \in Slots(outcome.groups) :
              x[1] = y[1] =>
                 FoldedAuthor(outcome.groups[x[1]].books[x[2]])
                    = FoldedAuthor(outcome.groups[y[1]].books[y[2]])

\* A group whose members' author strings differ before folding, beside a
\* record of another author that has the same title.
C3_Witness ==
    /\ FullScanDone
    /\ args.mode = "author_title"
    /\ Len(books) = 3
    /\ Len(outcome.groups) = 1
    /\ \E x, y \in Slots(outcome.groups) :
          outcome.groups[1].books[x[2]].authors # outcome.groups[1].books[y[2]].authors
    /\ \E k \in DOMAIN books : books[k].id \notin GroupedIds(outcome.groups)

\* C4: every group a full scan returns has at least two members, under each
\* strategy.
C4_GroupsHaveTwo ==
    FullScanDone => \A g \in DOMAIN outcome.groups : Len(outcome.groups[g].books) >= 2

\* A scan that emitted a group and left a seed that claimed nothing ungrouped.
C4_Witness ==
    /\ FullScanDone
    /\ args.mode = "title"
    /\ outcome.kind = "groups"
    /\ books[1].id \notin GroupedIds(outcome.groups)

\* C5: a full scan returns at most limit groups, counted over all author
\* buckets.
C5_AtMostLimit ==
    FullScanDone => Len(outcome.groups) <= args.limit

\* Two author buckets that each hold a pair, and a cap of one group.
C5_Witness ==
    /\ FullScanDone
    /\ args.mode = "author_title"
    /\ args.limit = 1
    /\ Len(outcome.groups) = 1
    /\ Len(findDuplicatesByAuthorTitle(books, args.threshold, PairBooks)) = 2
    /\ Len(byAuthor(books)) = 2

-----------------------------------------------------------------------------
(* Properties of the targeted lookup and of the identifier strategy.       *)

\* C6 as stated: a targeted invocation whose focal id is not among the
\* records its candidates were taken from never ends in a success outcome.
C6_AbsentFocalIsNotFound ==
    (pc = "done" /\ args.hasBookId /\ args.bookId \notin Range(Ids(books)))
        => outcome.kind \notin {"no_duplicates_of_target", "duplicates_of_target"}

\* The tokens of an identifier text: the comma-separated pieces, trimmed and
\* lower-cased, without the empty piece and without "null".
TokensOf(text) ==
    { toLowerCase(trim(piece)) : piece \in Range(splitComma(text)) } \ {<<>>, NullToken}

\* Records bs[m] and bs[n] are both members of an emitted group that cites t.
ShareGroupFor(t, bs, m, n, groups) ==
    \E g \in DOMAIN groups :
        /\ groups[g].reason = IdentifierReason(t)
        /\ bs[m].id \in Range(Ids(groups[g].books))
        /\ bs[n].id \in Range(Ids(groups[g].books))

AllTokens(bs) == UNION { TokensOf(bs[k].identifiers) : k \in DOMAIN bs }

IdentifierScanDone == FullScanDone /\ args.mode = "identifier"

IsbnLibrary ==
    << [id |-> 5, title |-> Dune, authors |-> Herbert,
        identifiers |-> Isbn123, formats |-> <<>>],
       [id |-> 6, title |-> Dune, authors |-> Herbert,
        identifiers |-> Isbn123Asin999, formats |-> <<>>] >>

\* Records 5 and 6 form the one group, which cites isbn:123.
IsbnScenario ==
    (IdentifierScanDone /\ books = IsbnLibrary) =>
        /\ Len(outcome.groups) = 1
        /\ Ids(outcome.groups[1].books) = <<5, 6>>
        /\ outcome.groups[1].reason = IdentifierReason(Isbn123)

\* C7 as stated: the scenario, and two records share a group for token t
\* exactly if both contain t after trim and lower-case.
C7_AsStated ==
    /\ IsbnScenario
    /\ IdentifierScanDone =>
          \A t \in AllTokens(books) : \A m, n \in DOMAIN books :
              m # n => ( ShareGroupFor(t, books, m, n, outcome.groups)
                         <=> ( t \in TokensOf(books[m].identifiers)
                               /\ t \in TokensOf(books[n].identifiers) ) )

\* C7 amended: the scenario; two records that share a group for token t both
\* contain t after trim and lower-case; and when fewer than limit groups are
\* returned, two records that both contain t share a group for t.
C7_IdentifierMatch ==
    /\ IsbnScenario
    /\ IdentifierScanDone =>
          \A t \in AllTokens(books) : \A m, n \in DOMAIN books :
              m # n =>
                 /\ ShareGroupFor(t, books, m, n, outcome.groups)
                       => ( t \in TokensOf(books[m].identifiers)
                            /\ t \in TokensOf(books[n].identifiers) )
                 /\ ( Len(outcome.groups) < args.limit
                      /\ t \in TokensOf(books[m].identifiers)
                      /\ t \in TokensOf(books[n].identifiers) )
                       => ShareGroupFor(t, books, m, n, outcome.groups)

C7_Witness ==
    /\ IdentifierScanDone
    /\ books = IsbnLibrary
    /\ args.limit = 2
    /\ Len(outcome.groups) = 1
    /\ ShareGroupFor(Isbn123, books, 1, 2, outcome.groups)

\* C8: when getAllBooks resolves with no record in a full scan, the
\* invocation returns an empty result and no error, under every strategy.
C8_EmptyRecordSet ==
    [][ (GetAllBooksReturns /\ ~args.hasBookId /\ library = <<>>)
           => ( outcome'.kind \in {"no_books", "no_duplicates"}
                /\ outcome'.groups = <<>> ) ]_vars

C8_Witness ==
    /\ pc = "done"
    /\ ~args.hasBookId
    /\ args.mode = "identifier"
    /\ books = <<>>
    /\ outcome.kind = "no_books"

-----------------------------------------------------------------------------
(* Properties of similarity.                                               *)

SimilarityDone == pc = "similarity_done"

\* C9: similarity(a, b) and similarity(b, a) are the same number.
C9_Symmetric ==
    SimilarityDone => SameNumber(ret, similarity(s2, s1))

\* Strings that differ and share some token but not all.
C9_Witness ==
    /\ SimilarityDone
    /\ Len(s1) # Len(s2)
    /\ 0 < ret[1]
    /\ ret[1] < ret[2]

\* The string has a character that is not whitespace.
HasInk(s) == \E k \in DOMAIN s : s[k] \notin SpaceChars

\* One argument is the empty string and the other is the non-empty x.
EmptyAgainst(x) ==
    /\ x # <<>>
    /\ \/ s1 = <<>> /\ s2 = x
       \/ s2 = <<>> /\ s1 = x

\* C10 as stated: similarity("", x) is 0 for every non-empty x, whitespace-
\* only x included, in either argument order.
C10_AsStated ==
    SimilarityDone => \A x \in {s1, s2} : EmptyAgainst(x) => ret[1] = 0

\* C10 amended: similarity("", x) is 0 for every x that has a character
\* other than whitespace, in either argument order; for a non-empty x of
\* whitespace only it is 1.
C10_EmptyAgainstText ==
    SimilarityDone =>
        \A x \in {s1, s2} :
            EmptyAgainst(x) =>
                /\ HasInk(x) => ret[1] = 0
                /\ ~HasInk(x) => SameNumber(ret, <<1, 1>>)

C10_Witness ==
    /\ SimilarityDone
    /\ s2 = <<>>
    /\ EmptyAgainst(s1)
    /\ HasInk(s1)
    /\ Len(s1) = 3
    /\ ret[1] = 0

\* C11: for every title s, similarity(normalizeTitle(s), normalizeTitle(s))
\* is 1, also when s or its normalized form is the empty string.
C11_SelfSimilarity ==
    pc = "compared" => SameNumber(ret, <<1, 1>>)

\* A non-empty title whose normalized form is empty.
C11_Witness ==
    /\ pc = "compared"
    /\ Len(s1) = MaxTitleLen
    /\ s2 = <<>>
    /\ ret = <<1, 1>>

\* What normalizeTitle can return: lower case, no whitespace at either end,
\* word characters and whitespace only.
IsNormalized(s) ==
    /\ \A k \in DOMAIN s : s[k] \in (WordChars \ Range(UpperLetters)) \cup SpaceChars
    /\ s = <<>> \/ (s[1] \notin SpaceChars /\ s[Len(s)] \notin SpaceChars)

\* The tokens of s: its maximal pieces without whitespace.
TokenSet(s) ==
    { SubSeq(s, i, j) : i \in DOMAIN s, j \in DOMAIN s } \cap
    { SubSeq(s, x[1], x[2]) :
        x \in { y \in (DOMAIN s) \X (DOMAIN s) :
                  /\ y[1] <= y[2]
                  /\ \A k \in y[1]..y[2] : s[k] \notin SpaceChars
                  /\ y[1] = 1 \/ s[y[1] - 1] \in SpaceChars
                  /\ y[2] = Len(s) \/ s[y[2] + 1] \in SpaceChars } }

TargetedTitleDone ==
    /\ pc = "done"
    /\ args.hasBookId
    /\ outcome.kind \in {"duplicates_of_target", "no_duplicates_of_target"}
    /\ ~(args.mode = "identifier" /\ targetBook.identifiers # <<>>)

TitleScanDone ==
    FullScanDone /\ args.mode \in {"title", "author_title"}

\* Every record matched at this invocation stands in relation R(seed, member)
\* to the record it was compared with: the first member of its group, or the
\* focal record.
MatchesSatisfy(R(_, _)) ==
    /\ TitleScanDone =>
          \A x \in Slots(outcome.groups) :
             R(outcome.groups[x[1]].books[1], outcome.groups[x[1]].books[x[2]])
    /\ TargetedTitleDone =>
          \A k \in DOMAIN outcome.duplicates : R(targetBook, outcome.duplicates[k])

SameNormalizedTitle(a, b) == normalizeTitle(a.title) = normalizeTitle(b.title)

SameTitleTokens(a, b) ==
    TokenSet(normalizeTitle(a.title)) = TokenSet(normalizeTitle(b.title))

ParametersInRange ==
    /\ 0 <= args.threshold /\ args.threshold <= 100
    /\ args.limit > 0
    /\ args.mode \in {"title", "author_title", "identifier"}

TargetedIdentifierDone ==
    /\ pc = "done"
    /\ args.hasBookId
    /\ args.mode = "identifier"
    /\ outcome.kind \in {"duplicates_of_target", "no_duplicates_of_target"}

\* The ids of the records of bs other than target that satisfy P.
OthersWhere(bs, target, P(_)) ==
    { bs[k].id : k \in { n \in DOMAIN bs : bs[n].id # target.id /\ P(bs[n]) } }

\* C15: in targeted mode with the identifier strategy and a focal record
\* that has identifiers, the result is exactly the other records that share
\* with it an identifier token (split on commas, trimmed, lower-cased, empty
\* and 'null' tokens dropped), and never the focal record.
C15_SharedTokenMatches ==
    (TargetedIdentifierDone /\ TokensOf(targetBook.identifiers) # {}) =>
        Range(Ids(outcome.duplicates)) =
            OthersWhere(books, targetBook,
                LAMBDA b : TokensOf(b.identifiers) \cap TokensOf(targetBook.identifiers) # {})

\* C16: in targeted mode with the identifier strategy and a focal record
\* without identifiers (absent, empty, or no token left after dropping
\* empty and 'null' tokens), the result is exactly the other records whose
\* normalized title is similar to the focal record's at the threshold.
C16_FallsBackToTitle ==
    (TargetedIdentifierDone /\ TokensOf(targetBook.identifiers) = {}) =>
        Range(Ids(outcome.duplicates)) =
            OthersWhere(books, targetBook,
                LAMBDA b : AtLeast(similarity(normalizeTitle(targetBook.title),
                                              normalizeTitle(b.title)), args.threshold))

\* The tokens that two or more records of bs carry.
SharedTokens(bs) ==
    { t \in AllTokens(bs) :
        \E m, n \in DOMAIN bs : m # n /\ t \in TokensOf(bs[m].identifiers)
                                      /\ t \in TokensOf(bs[n].identifiers) }

\* Some emitted group cites token t and has the record with this id.
InGroupFor(t, id, groups) ==
    \E g \in DOMAIN groups :
        groups[g].reason = IdentifierReason(t) /\ id \in Range(Ids(groups[g].books))

\* C17: in an identifier scan no two emitted groups cite the same token,
\* and a record that shares token t1 with one record and token t2 with
\* another is a member of the group for t1 and of the group for t2 when the
\* limit leaves room for every shared token.
C17_OneGroupPerToken ==
    IdentifierScanDone =>
        /\ \A g, h \in DOMAIN outcome.groups :
              g # h => outcome.groups[g].reason # outcome.groups[h].reason
        /\ Cardinality(SharedTokens(books)) <= args.limit =>
              \A k \in DOMAIN books :
                 \A t1, t2 \in TokensOf(books[k].identifiers) \cap SharedTokens(books) :
                    t1 # t2 => /\ InGroupFor(t1, books[k].id, outcome.groups)
                               /\ InGroupFor(t2, books[k].id, outcome.groups)

\* Two groups, for two tokens, with one record in both.
C17_Witness ==
    /\ IdentifierScanDone
    /\ Len(outcome.groups) = 2
    /\ outcome.groups[1].reason # outcome.groups[2].reason
    /\ \E k \in DOMAIN books :
          /\ InGroupFor(Isbn123, books[k].id, outcome.groups)
          /\ InGroupFor(Asin999, books[k].id, outcome.groups)
          /\ \E m, n \in DOMAIN books :
                /\ m # n /\ m # k /\ n # k
                /\ Isbn123 \in TokensOf(books[m].identifiers)
                /\ Asin999 \in TokensOf(books[n].identifiers)

\* A record, and a record sequence, with the formats text taken away.
WithoutFormats(b) == IF b = Nil THEN Nil ELSE [b EXCEPT !.formats = <<>>]

AllWithoutFormats(bs) == [k \in DOMAIN bs |-> WithoutFormats(bs[k])]

\* What a result says about matching: its kind, each group's reason and
\* member ids in order, and the ids of the focal record's duplicates in order.
Matching(o) ==
    [kind |-> o.kind,
     groups |-> [g \in DOMAIN o.groups |->
                    [reason |-> o.groups[g].reason, ids |-> Ids(o.groups[g].books)]],
     duplicates |-> Ids(o.duplicates)]

ResultDone ==
    /\ pc = "done"
    /\ outcome.kind \in {"groups", "no_duplicates", "no_books",
                         "duplicates_of_target", "no_duplicates_of_target"}

\* Some record the invocation read has a formats text.
SomeFormats ==
    \/ \E k \in DOMAIN books : books[k].formats # <<>>
    \/ targetBook # Nil /\ targetBook.formats # <<>>

\* C18: formats never influence matching.  Every result over records with
\* formats equals, in groups, member ids, order and reasons, the result for
\* the same records with all formats texts removed; so two record sets that
\* differ only in formats have the same result, under every strategy, full
\* scan or targeted.
C18_FormatsIgnored ==
    (ResultDone /\ SomeFormats) =>
        Matching(outcome) =
            Matching(resultOf(args, WithoutFormats(targetBook), AllWithoutFormats(books)))

\* A targeted title comparison that matched a record without formats
\* against a focal record with formats.
C18_Witness ==
    /\ ResultDone
    /\ args.hasBookId
    /\ args.mode # "identifier"
    /\ targetBook.formats = Epub
    /\ \E k \in DOMAIN outcome.duplicates : outcome.duplicates[k].formats = <<>>

NormalizeDone == pc \in {"normalized", "compared"}

\* C19: for every title, normalizeTitle returns a string without leading or
\* trailing whitespace in which every run of whitespace is a single
\* character: no two whitespace characters are adjacent.
C19_WhitespaceCollapsed ==
    NormalizeDone =>
        /\ s2 = trim(s2)
        /\ \A k \in DOMAIN s2 :
              (s2[k] \in SpaceChars /\ k < Len(s2)) => s2[k + 1] \notin SpaceChars

\* s is an article of n letters, whitespace, words of word characters and
\* whitespace, and a ':' or ';' at index p that starts the subtitle.
TitleForm(s, n, p) ==
    /\ n + 1 < p /\ p <= Len(s)
    /\ toLowerCase(SubSeq(s, 1, n)) \in {<<"t","h","e">>, <<"a">>, <<"a","n">>}
    /\ s[n + 1] \in SpaceChars
    /\ \A k \in (n + 2)..(p - 1) : s[k] \in WordChars \cup SpaceChars
    /\ s[p] \in {":", ";"}

Hobbit == <<"h","o","b","b","i","t">>

\* C20: normalizeTitle lower-cases, strips one leading article followed by
\* whitespace and removes everything from the first ':' or ';' onward:
\* "The Hobbit: An Unexpected Journey" gives "hobbit", and a title of the
\* form '<the|a|an> <words>: <subtitle>' gives the lower-cased words.
C20_ArticleAndSubtitleRemoved ==
    NormalizeDone =>
        /\ s1 = HobbitJourney => s2 = Hobbit
        /\ \A n \in 1..3, p \in DOMAIN s1 :
              TitleForm(s1, n, p) => s2 = trim(toLowerCase(SubSeq(s1, n + 2, p - 1)))

-----------------------------------------------------------------------------
(* Order, greediness and the cap of the full scan.                         *)

\* The input position of the record with this id.
PosOf(bs, id) == CHOOSE k \in DOMAIN bs : bs[k].id = id

\* Input position of the first member of group g.
SeedPos(bs, groups, g) == PosOf(bs, groups[g].books[1].id)

\* Input position of the first record with the author of group g's seed.
BucketPos(bs, groups, g) ==
    CHOOSE k \in DOMAIN bs :
        /\ FoldedAuthor(bs[k]) = FoldedAuthor(groups[g].books[1])
        /\ \A j \in 1..(k - 1) : FoldedAuthor(bs[j]) # FoldedAuthor(groups[g].books[1])

\* <<record, piece>> of the first occurrence of token t while the records
\* and, within a record, the comma-separated pieces are read in order.
FirstOccurrence(bs, t) ==
    LET Has(k) == t \in Range(identifierTokens(bs[k].identifiers))
        k0 == CHOOSE k \in DOMAIN bs : Has(k) /\ \A j \in 1..(k - 1) : ~Has(j)
        ids == identifierTokens(bs[k0].identifiers)
        p0 == CHOOSE p \in DOMAIN ids : ids[p] = t /\ \A q \in 1..(p - 1) : ids[q] # t
    IN  <<k0, p0>>

LexLess(x, y) == x[1] < y[1] \/ (x[1] = y[1] /\ x[2] < y[2])

\* The members of every group are in input order.
MembersInInputOrder(bs, groups) ==
    \A g \in DOMAIN groups :
       \A m, n \in DOMAIN groups[g].books :
          m < n => PosOf(bs, groups[g].books[m].id) < PosOf(bs, groups[g].books[n].id)

\* C21: full-scan groups come in discovery order: by seed position for
\* title; by first appearance of the author bucket, then seed position, for
\* author_title; by first occurrence of the token for identifier.  Members
\* of a title or author_title group are in input order, seed first.
C21_DiscoveryOrder ==
    FullScanDone =>
        LET groups == outcome.groups
        IN  /\ args.mode = "title" =>
                 /\ \A g, h \in DOMAIN groups :
                       g < h => SeedPos(books, groups, g) < SeedPos(books, groups, h)
                 /\ MembersInInputOrder(books, groups)
            /\ args.mode = "author_title" =>
                 /\ \A g, h \in DOMAIN groups :
                       g < h => LexLess(<<BucketPos(books, groups, g), SeedPos(books, groups, g)>>,
                                        <<BucketPos(books, groups, h), SeedPos(books, groups, h)>>)
                 /\ MembersInInputOrder(books, groups)
            /\ args.mode = "identifier" =>
                 \A g, h \in DOMAIN groups :
                    g < h => LexLess(FirstOccurrence(books, groups[g].reason.detail),
                                     FirstOccurrence(books, groups[h].reason.detail))

\* Two author_title groups of which the first has the later seed, because
\* its author appears first in the input.
C21_Witness ==
    /\ FullScanDone
    /\ args.mode = "author_title"
    /\ books = InterleavedLibrary
    /\ Len(outcome.groups) = 2
    /\ SeedPos(books, outcome.groups, 1) > SeedPos(books, outcome.groups, 2)
    /\ BucketPos(books, outcome.groups, 1) < BucketPos(books, outcome.groups, 2)

\* C22: the engine holds no state between calls.  Whatever other scans ran
\* before or between, on their own record sets, each returned scan has the
\* result of the same arguments on the same record set run alone.
C22_NoStateBetweenCalls ==
    \A c \in Callers :
       (pc[c] = "done" /\ outcome[c].kind # "threw") =>
           /\ books[c] = library[c]
           /\ outcome[c] = resultOf(args[c], Nil, books[c])

\* Both callers in flight together, both with a group, on different record
\* sets that use the same ids.
C22_Witness ==
    /\ \A c \in Callers : pc[c] = "done" /\ outcome[c].kind = "groups"
    /\ library[1] # library[2]
    /\ ret # {}

TitleOnlyScanDone == FullScanDone /\ args.mode = "title"

\* The titles of records a and b are similar at the invocation's threshold.
Similar(a, b) ==
    AtLeast(similarity(normalizeTitle(a.title), normalizeTitle(b.title)), args.threshold)

\* The ids in groups 1..g-1: what was claimed when group g's seed was reached.
ClaimedBefore(groups, g) == IdsInGroups(SubSeq(groups, 1, g - 1))

\* The records after position p that are not claimed and are similar to seed.
LaterUnclaimedSimilar(bs, p, seed, claimed) ==
    LET Joins(b) == b.id \notin claimed /\ Similar(seed, b)
    IN  SelectSeq(SubSeq(bs, p + 1, Len(bs)), Joins)

\* C23: every group of a title scan is a seed that was unclaimed when the
\* scan reached it, followed by exactly the later records that were
\* unclaimed then and are similar to the seed at the threshold; members are
\* compared with the seed only.
C23_SeedAndLaterMatches ==
    TitleOnlyScanDone =>
        \A g \in DOMAIN outcome.groups :
           LET members == outcome.groups[g].books
               seed == members[1]
               claimed == ClaimedBefore(outcome.groups, g)
           IN  /\ seed.id \notin claimed
               /\ Tail(members) =
                     LaterUnclaimedSimilar(books, PosOf(books, seed.id), seed, claimed)

\* "Dune Messiah" follows the seed "Dune" and the later "Messiah", similar
\* to "Dune Messiah" but not to the seed, stays out.
C23_Witness ==
    /\ TitleOnlyScanDone
    /\ args.threshold = 50
    /\ Len(books) = 3
    /\ books[1].title = Dune /\ books[2].title = DuneMessiah /\ books[3].title = Messiah
    /\ Len(outcome.groups) = 1
    /\ Ids(outcome.groups[1].books) = <<1, 2>>

\* The cap cannot be reached: a scan of n records emits at most n/2 groups.
Uncapped == 2 * args.limit > Len(books)

\* The record at position k was unclaimed when the scan reached it: it
\* joined no group as a later member.
ReachedUnclaimed(bs, groups, k) ==
    \A g \in DOMAIN groups : bs[k].id \notin Range(Ids(Tail(groups[g].books)))

\* C24: in an uncapped title scan every non-seed member m of a group is in
\* the group of the earliest record that precedes m, was unclaimed when the
\* scan reached it and is similar to m at the threshold.
C24_EarliestSeedClaims ==
    (TitleOnlyScanDone /\ Uncapped) =>
        \A x \in Slots(outcome.groups) :
           x[2] > 1 =>
              LET m == outcome.groups[x[1]].books[x[2]]
                  p == SeedPos(books, outcome.groups, x[1])
                  Candidate(k) == /\ k < PosOf(books, m.id)
                                  /\ ReachedUnclaimed(books, outcome.groups, k)
                                  /\ Similar(books[k], m)
              IN  /\ Candidate(p)
                  /\ \A k \in DOMAIN books : Candidate(k) => p <= k

\* "Dune Messiah" is similar to "Messiah" and to the later seed "Dune", and
\* is in the group of "Messiah".
C24_Witness ==
    /\ TitleOnlyScanDone
    /\ Uncapped
    /\ args.threshold = 50
    /\ Len(books) = 3
    /\ books[1].title = Messiah /\ books[2].title = Dune /\ books[3].title = DuneMessiah
    /\ Ids(outcome.groups[1].books) = <<1, 3>>
    /\ ReachedUnclaimed(books, outcome.groups, 2)
    /\ Similar(books[2], books[3])

\* C25: in an identifier scan over records with distinct ids the members of
\* every emitted group are pairwise distinct records; a record whose
\* identifiers text repeats a token counts once for that token.
C25_MembersDistinct ==
    IdentifierScanDone =>
        \A g \in DOMAIN outcome.groups :
           \A m, n \in DOMAIN outcome.groups[g].books :
              m # n => outcome.groups[g].books[m].id # outcome.groups[g].books[n].id

\* A cap no scan of bs can reach: a title or author_title group needs two
\* records of its own, an identifier group a token of its own.
NoCap(bs) == Len(bs) + Cardinality(AllTokens(bs)) + 1

\* The first k elements of seq, or all of them.
FirstK(seq, k) == SubSeq(seq, 1, IF k < Len(seq) THEN k ELSE Len(seq))

\* C26: under every strategy the groups returned with cap k are the first
\* k groups of the scan without cap (same members, order and reasons), or
\* all of them when there are fewer; no group is truncated at the cap.
C26_CapIsPrefix ==
    FullScanDone =>
        outcome.groups =
            FirstK(fullScan(args.mode, books, args.threshold, NoCap(books)), args.limit)

\* An identifier scan cut at one group where two would be found.
C26_Witness ==
    /\ IdentifierScanDone
    /\ args.limit = 1
    /\ Len(outcome.groups) = 1
    /\ Len(fullScan(args.mode, books, args.threshold, NoCap(books))) = 2

\* C27: in an uncapped title scan over records with distinct ids, of every
\* two records whose normalized titles are similar at the threshold at
\* least one is a member of an emitted group.
C27_SimilarPairTouched ==
    (TitleOnlyScanDone /\ Uncapped) =>
        \A m, n \in DOMAIN books :
           (m # n /\ Similar(books[m], books[n])) =>
               \/ books[m].id \in GroupedIds(outcome.groups)
               \/ books[n].id \in GroupedIds(outcome.groups)

\* "Dune Messiah" and "Dune" are similar; the first was claimed by the seed
\* "Messiah" and "Dune" stays ungrouped.
C27_Witness ==
    /\ TitleOnlyScanDone
    /\ Uncapped
    /\ Len(books) = 3
    /\ books[1].title = Messiah /\ books[2].title = DuneMessiah /\ books[3].title = Dune
    /\ Similar(books[2], books[3])
    /\ GroupedIds(outcome.groups) = {1, 2}

TargetedAuthorTitleDone ==
    /\ pc = "done"
    /\ args.hasBookId
    /\ args.mode = "author_title"
    /\ outcome.kind \in {"duplicates_of_target", "no_duplicates_of_target"}

\* C28: targeted author_title mode treats two records as same-author exactly
\* when the full scan puts them in one author bucket (author strings equal
\* after lower-casing and trimming): its result is the other records of the
\* focal record's bucket whose title is similar to the focal record's.
C28_SameAuthorRelation ==
    TargetedAuthorTitleDone =>
        Range(Ids(outcome.duplicates)) =
            OthersWhere(books, targetBook,
                LAMBDA b : FoldedAuthor(b) = FoldedAuthor(targetBook) /\ Similar(targetBook, b))

\* C29: targeted mode answers not-found only when the focal id does not
\* exist in the library; a failure to resolve the focal record for another
\* reason is not answered with 'Book not found'.
C29_NotFoundMeansAbsent ==
    (pc = "done" /\ args.hasBookId /\ outcome.kind = "not_found") =>
        \A k \in DOMAIN library : library[k].id # args.bookId

====
